---- MODULE Spec2Model ----
(***************************************************************************)
(* A model of toolong's log-record interpretation pipeline:                *)
(*   - format_parser.py : the format matchers and FormatParser.parse       *)
(*   - log_view.py      : LogView._is_eliot_log, LogView.compose           *)
(*   - eliot_view.py    : EliotTree (add_log_entry, _add_node_to_tree ...) *)
(*                        and EliotView.on_mount                           *)
(*   - ui.py            : CompareTokens, UI.sort_paths                     *)
(* Lines are modelled by what the code can observe of them: their length,  *)
(* which regular expression they match, and the value json.loads returns.  *)
(***************************************************************************)
EXTENDS Integers, Sequences, FiniteSets, TLC

\* format_parser.py:172  "if len(line) > 10_000"
LineCap == 10000

\* Number of FormatParser instances alive in the model.
NumParsers == 2

ParserIds == 1..NumParsers

(***************************************************************************)
(* JSON values.  A decoded value is a record                               *)
(*    t   : its Python type ("null","bool","num","str","list","dict")      *)
(*    s   : the text of a str                                              *)
(*    l   : the items of a list of integers                                *)
(*    has : for a str/list, the key names that are `in` it                 *)
(*          (substrings of the str, elements of the list)                  *)
(*    d   : for a dict, its entries <<[k, v]>> in record order             *)
(*    emb : for a str, <<v>> when json.loads of its text returns v, else   *)
(*          <<>>                                                           *)
(***************************************************************************)
JNull == [t |-> "null", s |-> "", l |-> <<>>, has |-> {}, d |-> <<>>, emb |-> <<>>]

JBool == [t |-> "bool", s |-> "", l |-> <<>>, has |-> {}, d |-> <<>>, emb |-> <<>>]

JNum == [t |-> "num", s |-> "", l |-> <<>>, has |-> {}, d |-> <<>>, emb |-> <<>>]

JStr(x) == [t |-> "str", s |-> x, l |-> <<>>, has |-> {}, d |-> <<>>, emb |-> <<>>]

JStrHas(x, h) == [t |-> "str", s |-> x, l |-> <<>>, has |-> h, d |-> <<>>, emb |-> <<>>]

\* A str whose text is the JSON encoding of the value v.
JStrJson(x, v) == [t |-> "str", s |-> x, l |-> <<>>, has |-> {}, d |-> <<>>, emb |-> <<v>>]

JList(x) == [t |-> "list", s |-> "", l |-> x, has |-> {}, d |-> <<>>, emb |-> <<>>]

JListHas(h) == [t |-> "list", s |-> "", l |-> <<>>, has |-> h, d |-> <<>>, emb |-> <<>>]

JObj(entries) == [t |-> "dict", s |-> "", l |-> <<>>, has |-> {}, d |-> entries, emb |-> <<>>]

KV(key, value) == [k |-> key, v |-> value]

\* The keys every Eliot check in the repository looks for.
EliotKeys == <<"task_uuid", "task_level", "action_type">>

\* Python's `key in data`: "true", "false", or the exception it raises.
KeyIn(key, data) ==
    CASE data.t \in {"null", "bool", "num"} -> "TypeError"
      [] data.t \in {"str", "list"} -> IF key \in data.has THEN "true" ELSE "false"
      [] OTHER -> IF \E i \in 1..Len(data.d) : data.d[i].k = key THEN "true" ELSE "false"

\* all(key in data for key in ("task_uuid", "task_level", "action_type")):
\* the generator stops at the first false, and the first test raises for a
\* value that is not a container.
AllEliotKeysIn(data) ==
    IF KeyIn(EliotKeys[1], data) = "TypeError" THEN "TypeError"
    ELSE IF \A i \in 1..Len(EliotKeys) : KeyIn(EliotKeys[i], data) = "true"
         THEN "true" ELSE "false"

\* data[key] for a dict that has the key.
Get(data, key) ==
    LET i == CHOOSE j \in 1..Len(data.d) : data.d[j].k = key IN data.d[i].v

(***************************************************************************)
(* Lines.  body is what the text is; for a line longer than LineCap,       *)
(* prefix is what its first LineCap characters are.                        *)
(*   shape : "blank" (empty or whitespace only), "text", "common",         *)
(*           "combined", "both" (matches both access-log regexes), "json"  *)
(*   json  : the value json.loads returns when shape = "json"              *)
(*   stamp : whether timestamps.parse finds a timestamp in the text        *)
(***************************************************************************)
Content(shape, json, stamp) == [shape |-> shape, json |-> json, stamp |-> stamp]

Blank == Content("blank", JNull, FALSE)

PlainText == Content("text", JNull, FALSE)

Json(value) == Content("json", value, FALSE)

Line(n, body) == [len |-> n, body |-> body, prefix |-> body]

LongLine(n, body, prefix) == [len |-> n, body |-> body, prefix |-> prefix]

\* A cap that leaves the line as it is.
KeepWholeLine(line) == line

\* line[:10_000]
Truncate(line) == [len |-> LineCap, body |-> line.prefix, prefix |-> line.prefix]

\* json.loads(line): the decoded value, or JSONDecodeError
JsonLoads(line) ==
    IF line.body.shape = "json" THEN [exc |-> "", value |-> line.body.json]
    ELSE [exc |-> "JSONDecodeError", value |-> JNull]

(***************************************************************************)
(* format_parser.py: the format matchers.  A matcher returns None          *)
(* (tag "None"), a ParseResult (tag "ok"; timestamp says whether its first *)
(* component is a datetime) or raises (tag "raise").                       *)
(***************************************************************************)
MNone == [tag |-> "None", timestamp |-> FALSE, exc |-> ""]

MOk(ts) == [tag |-> "ok", timestamp |-> ts, exc |-> ""]

MRaise(e) == [tag |-> "raise", timestamp |-> FALSE, exc |-> e]

\* line.strip() is empty
IsBlank(line) == line.body.shape = "blank"

\* toolong.timestamps.parse(line)[1]: a timestamp or None, best effort.
TimestampsParse(line) == line.body.stamp

\* The statements of EliotLogFormat.parse after the key check, for a dict
\* that has the three keys: the first exception they raise, or "".
EliotFormatError(data) ==
    CASE KeyIn("timestamp", data) = "true" /\ Get(data, "timestamp").t \notin {"num", "bool"}
            -> "TypeError"                         \* datetime.fromtimestamp(...)
      [] Get(data, "task_level").t \in {"null", "bool", "num"}
            -> "TypeError"                         \* len(task_level)
      [] Get(data, "action_type").t # "str"
            -> "TypeError"                         \* text.append(action_type, ...)
      [] KeyIn("action_status", data) = "true" /\ Get(data, "action_status").t # "str"
            -> "TypeError"                         \* text.append(action_status, ...)
      [] KeyIn("duration", data) = "true" /\ Get(data, "duration").t = "str"
            -> "ValueError"                        \* f"{data['duration']:.3f}"
      [] KeyIn("duration", data) = "true" /\ Get(data, "duration").t \notin {"num", "bool"}
            -> "TypeError"
      [] OTHER -> ""

\* EliotLogFormat.parse: only json.JSONDecodeError and KeyError are caught.
EliotLogFormatParse(line) ==
    LET r == JsonLoads(line) IN
    IF r.exc # "" THEN MNone
    ELSE LET data == r.value
             present == AllEliotKeysIn(data)
         IN CASE present = "TypeError" -> MRaise("TypeError")
              [] present = "false" -> MNone
              [] data.t # "dict" -> MRaise("TypeError")    \* data["task_uuid"] on a str or list
              [] EliotFormatError(data) # "" -> MRaise(EliotFormatError(data))
              [] OTHER -> MOk(KeyIn("timestamp", data) = "true")

\* JSONLogFormat.parse: every exception of json.loads is caught.
JSONLogFormatParse(line) ==
    IF IsBlank(line) THEN MNone
    ELSE IF JsonLoads(line).exc # "" THEN MNone
    ELSE MOk(TimestampsParse(line))

\* RegexLogFormat.parse with CommonLogFormat.REGEX
CommonLogFormatParse(line) ==
    IF line.body.shape \in {"common", "both"} THEN MOk(TimestampsParse(line)) ELSE MNone

\* RegexLogFormat.parse with CombinedLogFormat.REGEX
CombinedLogFormatParse(line) ==
    IF line.body.shape \in {"combined", "both"} THEN MOk(TimestampsParse(line)) ELSE MNone

\* DefaultLogFormat.parse: always a result, never a timestamp.
DefaultLogFormatParse(line) == MOk(FALSE)

\* format.parse(line), dispatched on the matcher's class
FormatParse(format, line) ==
    CASE format = "EliotLogFormat" -> EliotLogFormatParse(line)
      [] format = "JSONLogFormat" -> JSONLogFormatParse(line)
      [] format = "CommonLogFormat" -> CommonLogFormatParse(line)
      [] format = "CombinedLogFormat" -> CombinedLogFormatParse(line)
      [] OTHER -> MNone

\* The module-level list FORMATS, as written in the source.
FormatsLiteral ==
    <<"EliotLogFormat", "JSONLogFormat", "CommonLogFormat", "CombinedLogFormat">>

VARIABLES
    FORMATS,     \* the module-level list FORMATS
    formats,     \* formats[p]: FormatParser p's _formats; <<>> before __init__
    parsed       \* the last FormatParser.parse call: its arguments and outcome

parserVars == <<FORMATS, formats, parsed>>

NoCall ==
    [parser |-> 0, line |-> Line(0, Blank), seen |-> {}, index |-> -1,
     by |-> "", result |-> MNone, before |-> <<>>]

InitParser ==
    /\ FORMATS = FormatsLiteral
    /\ formats = [p \in ParserIds |-> <<>>]
    /\ parsed = NoCall

\* Two ways to get the reordering wrong: the matchers before index are lost;
\* the successful matcher alone is moved to the front.
RotateDropsPrefix(fs, index) == SubSeq(fs, index + 1, Len(fs))

RotateMoveToFront(fs, index) ==
    <<fs[index + 1]>> \o SubSeq(fs, 1, index) \o SubSeq(fs, index + 2, Len(fs))

\* [*self._formats[index:], *self._formats[:index]]  (index is 0-based)
Rotate(fs, index) == SubSeq(fs, index + 1, Len(fs)) \o SubSeq(fs, 1, index)

\* A reordering that also happens when the matcher at index raised.
ReordersOnRaise(result, index) == index > 0

\* "if parse_result is not None: if index:" -- the call reorders the list
\* when a matcher at an index > 0 returned a result.
Reorders(result, index) == result.tag = "ok" /\ index > 0

\* The loop of FormatParser.parse: the 0-based index of the first matcher
\* that does not return None (it returns a result or raises), or -1.
FirstHit(fs, line) ==
    LET hits == {i \in 1..Len(fs) : FormatParse(fs[i], line).tag # "None"} IN
    IF hits = {} THEN -1
    ELSE (CHOOSE i \in hits : \A j \in hits : i <= j) - 1

\* FormatParser.__init__
FormatParserInit(p) ==
    /\ formats[p] = <<>>
    /\ formats' = [formats EXCEPT ![p] = FORMATS]
    /\ UNCHANGED <<FORMATS, parsed>>

\* FormatParser.parse(line) on parser p
FormatParserParse(p, line) ==
    LET l == IF line.len > LineCap THEN Truncate(line) ELSE line
        index == IF IsBlank(l) THEN -1 ELSE FirstHit(formats[p], l)
    IN
    /\ formats[p] # <<>>
    /\ IF index = -1
       THEN /\ parsed' = [parser |-> p, line |-> line, seen |-> {l}, index |-> -1,
                          by |-> "DefaultLogFormat",
                          result |-> DefaultLogFormatParse(l), before |-> formats[p]]
            /\ UNCHANGED formats
       ELSE LET format == formats[p][index + 1]
                result == FormatParse(format, l)
            IN /\ parsed' = [parser |-> p, line |-> line, seen |-> {l}, index |-> index,
                             by |-> format, result |-> result, before |-> formats[p]]
               /\ IF Reorders(result, index)
                  THEN formats' = [formats EXCEPT ![p] = Rotate(@, index)]
                  ELSE UNCHANGED formats
    /\ UNCHANGED FORMATS

(***************************************************************************)
(* The lines given to FormatParser.parse.                                  *)
(***************************************************************************)
AllEliotKeys == {"task_uuid", "task_level", "action_type"}

\* {"task_uuid": "u1", "task_level": [1], "action_type": "a"} plus more entries
EliotObject(more) ==
    JObj(<<KV("task_uuid", JStr("u1")), KV("task_level", JList(<<1>>)),
           KV("action_type", JStr("a"))>> \o more)

ParseValues ==
    { JNull, JBool, JNum, JStr("abc"),
      JStrHas("task_uuid task_level action_type", AllEliotKeys),
      JList(<<1>>), JListHas(AllEliotKeys),
      JObj(<<>>),
      JObj(<<KV("task_uuid", JStr("u1")), KV("task_level", JList(<<1>>))>>),
      EliotObject(<<>>),
      EliotObject(<<KV("action_status", JStr("started")), KV("timestamp", JNum)>>),
      EliotObject(<<KV("timestamp", JStr("noon"))>>),
      EliotObject(<<KV("action_status", JNull)>>),
      EliotObject(<<KV("duration", JStr("1s"))>>),
      JObj(<<KV("task_uuid", JStr("u1")), KV("task_level", JNum),
             KV("action_type", JStr("a"))>>),
      JObj(<<KV("task_uuid", JStr("u1")), KV("task_level", JList(<<1>>)),
             KV("action_type", JNull)>>) }

ShortContents ==
    {PlainText, Content("text", JNull, TRUE),
     Content("common", JNull, TRUE), Content("combined", JNull, TRUE),
     Content("both", JNull, TRUE)}
    \cup {Json(v) : v \in ParseValues}

ParseLines ==
    {Line(0, Blank), Line(20, Blank), Line(LineCap + 1, Blank)}
    \cup {Line(20, c) : c \in ShortContents}
    \cup {Line(LineCap, PlainText),
          LongLine(LineCap + 1, PlainText, PlainText),
          LongLine(LineCap + 1, Json(EliotObject(<<>>)), PlainText),
          LongLine(LineCap + 1, Json(JNum), Json(JNum)),
          LongLine(LineCap + 1, Content("common", JNull, TRUE), PlainText),
          LongLine(LineCap + 1, Content("combined", JNull, TRUE),
                   Content("combined", JNull, TRUE))}

NextParser ==
    \/ \E p \in ParserIds : FormatParserInit(p)
    \/ \E p \in ParserIds : \E line \in ParseLines : FormatParserParse(p, line)

(***************************************************************************)
(* Claims about FormatParser.parse                                         *)
(***************************************************************************)
\* The 1-based position of matcher m in the list fs (0 when absent).
Pos(fs, m) == IF \E i \in 1..Len(fs) : fs[i] = m
              THEN CHOOSE i \in 1..Len(fs) : fs[i] = m ELSE 0

\* The last call succeeded at an index > 0 of the list it found.
SucceededAtLaterIndex == parsed.parser # 0 /\ parsed.result.tag = "ok" /\ parsed.index > 0

\* C1: FormatParser.parse is total and never raises: whatever the line, the
\* call returns a result; no matcher raises; when every matcher declines the
\* result is the fallback matcher's.
C1_ParseTotal ==
    parsed.parser # 0 =>
        /\ parsed.result.tag = "ok"
        /\ \A l \in parsed.seen : \A i \in 1..Len(parsed.before) :
               FormatParse(parsed.before[i], l).tag # "raise"
        /\ (\A l \in parsed.seen : \A i \in 1..Len(parsed.before) :
               FormatParse(parsed.before[i], l).tag = "None")
           => parsed.by = "DefaultLogFormat"

\* C2, as claimed: after a success at index k > 0 the matcher is at index 0
\* and any two other matchers keep their relative order.
C2_OthersKeepOrder ==
    SucceededAtLaterIndex =>
        LET before == parsed.before
            after == formats[parsed.parser]
            hit == before[parsed.index + 1]
            others == {before[i] : i \in 1..Len(before)} \ {hit}
        IN /\ after[1] = hit
           /\ \A a, b \in others :
                 (Pos(after, a) < Pos(after, b)) <=> (Pos(before, a) < Pos(before, b))

\* C2, amended: after a success at index k > 0 the matcher is at index 0; two
\* other matchers that were on the same side of index k keep their relative
\* order, and every matcher that followed index k now precedes every matcher
\* that preceded it.
C2_OthersKeepCyclicOrder ==
    SucceededAtLaterIndex =>
        LET before == parsed.before
            after == formats[parsed.parser]
            k == parsed.index + 1
            hit == before[k]
            others == {before[i] : i \in 1..Len(before)} \ {hit}
            SameSide(a, b) == (Pos(before, a) < k) <=> (Pos(before, b) < k)
        IN /\ after[1] = hit
           /\ \A a, b \in others :
                 /\ Pos(after, a) > 0
                 /\ SameSide(a, b) =>
                      ((Pos(after, a) < Pos(after, b)) <=> (Pos(before, a) < Pos(before, b)))
                 /\ (Pos(before, a) > k /\ Pos(before, b) < k) =>
                      Pos(after, a) < Pos(after, b)

\* A success at an index with matchers on both sides of it has happened.
C2_Witness ==
    /\ SucceededAtLaterIndex
    /\ parsed.index + 1 < Len(parsed.before)
    /\ formats[parsed.parser][1] = parsed.before[parsed.index + 1]

\* fs is the initial list rotated left by some number of places.
IsRotationOfInitial(fs) ==
    \E r \in 0..(Len(FormatsLiteral) - 1) :
        /\ Len(fs) = Len(FormatsLiteral)
        /\ \A i \in 1..Len(fs) : fs[i] = FormatsLiteral[((i - 1 + r) % Len(fs)) + 1]

\* C10: a success at index i > 0 of the list L leaves the list
\* [L[i]] + L[i+1..] + L[..i-1]; every constructed parser's list is a cyclic
\* rotation of the initial list, no matcher lost or duplicated.
C10_RotationShape ==
    /\ SucceededAtLaterIndex =>
          LET L == parsed.before
              i == parsed.index + 1
          IN formats[parsed.parser] =
                 <<L[i]>> \o SubSeq(L, i + 1, Len(L)) \o SubSeq(L, 1, i - 1)
    /\ \A p \in ParserIds : formats[p] # <<>> => IsRotationOfInitial(formats[p])

\* A parser whose list has been rotated more than once: a success at an
\* index > 0 of a list that was already not the initial one.
C10_Witness ==
    /\ SucceededAtLaterIndex
    /\ parsed.before # FormatsLiteral
    /\ formats[parsed.parser] # parsed.before

\* C11: the matchers and the fallback matcher are invoked on the first
\* LineCap characters of a line longer than LineCap, on the line itself
\* otherwise, and never on a line longer than LineCap.
C11_LengthCap ==
    parsed.parser # 0 =>
        /\ parsed.seen # {}
        /\ \A l \in parsed.seen :
              /\ l.len <= LineCap
              /\ l.len = (IF parsed.line.len > LineCap THEN LineCap ELSE parsed.line.len)
              /\ l.body = (IF parsed.line.len > LineCap THEN parsed.line.prefix
                           ELSE parsed.line.body)

\* A line longer than LineCap that is an Eliot record as a whole and plain
\* text once cut was parsed: the fallback matcher answered.
C11_Witness ==
    /\ parsed.parser # 0
    /\ parsed.line.len > LineCap
    /\ parsed.line.body.shape = "json"
    /\ parsed.line.prefix.shape = "text"
    /\ parsed.by = "DefaultLogFormat"

(***************************************************************************)
(* log_view.py: LogView._is_eliot_log, the discriminator LogView.compose   *)
(* applies to the first line of a file.                                    *)
(***************************************************************************)
\* LogView._is_eliot_log(line): "true", "false", or the exception that
\* escapes it (only json.JSONDecodeError and KeyError are caught).
IsEliotLog(line) ==
    LET r == JsonLoads(line) IN
    IF r.exc # "" THEN "false" ELSE AllEliotKeysIn(r.value)

VARIABLES
    probe        \* the last _is_eliot_log call: its argument and outcome

viewVars == <<probe>>

InitView == probe = [called |-> FALSE, line |-> Line(0, Blank), answer |-> ""]

\* self._is_eliot_log(line)
CallIsEliotLog(line) ==
    probe' = [called |-> TRUE, line |-> line, answer |-> IsEliotLog(line)]

ProbeKeys == <<"task_uuid", "task_level", "action_type", "timestamp">>

\* The value a well-formed record carries under a key.
TypicalValue(key) ==
    CASE key = "task_uuid" -> JStr("u1")
      [] key = "task_level" -> JList(<<1>>)
      [] key = "timestamp" -> JNum
      [] OTHER -> JStr("a")

\* The object whose keys are those of ProbeKeys in h, in that order.
ObjectWithKeys(h) ==
    LET ks == SelectSeq(ProbeKeys, LAMBDA k : k \in h) IN
    JObj([i \in 1..Len(ks) |-> KV(ks[i], TypicalValue(ks[i]))])

ProbeValues ==
    {JNull, JBool, JNum}
    \cup {JStrHas("text", h) : h \in SUBSET {ProbeKeys[i] : i \in 1..Len(ProbeKeys)}}
    \cup {JListHas(h) : h \in SUBSET {ProbeKeys[i] : i \in 1..Len(ProbeKeys)}}
    \cup {ObjectWithKeys(h) : h \in SUBSET {ProbeKeys[i] : i \in 1..Len(ProbeKeys)}}

ProbeLines ==
    {Line(n, c) : n \in {20, LineCap + 1},
                  c \in {PlainText, Content("common", JNull, TRUE),
                         Content("combined", JNull, TRUE)}
                        \cup {Json(v) : v \in ProbeValues}}
    \cup {Line(0, Blank), Line(20, Blank)}

NextView == \E line \in ProbeLines : CallIsEliotLog(line)

\* C6: _is_eliot_log(line) returns true iff the line decodes as a JSON object
\* that has the keys task_uuid, task_level and action_type, and returns false
\* without raising for every other line.
C6_DiscriminatorIffObject ==
    probe.called =>
        LET r == JsonLoads(probe.line)
            isRecord == /\ r.exc = ""
                        /\ r.value.t = "dict"
                        /\ \A k \in AllEliotKeys :
                              \E i \in 1..Len(r.value.d) : r.value.d[i].k = k
        IN probe.answer = (IF isRecord THEN "true" ELSE "false")

(***************************************************************************)
(* eliot.parse (the library behind `self._parser.add(data)`): Parser,      *)
(* Task and WrittenAction.  A Task maps task levels to nodes; an action's  *)
(* children are kept by level, a child action by reference to the task's   *)
(* node at that level (the library re-inserts every ancestor whenever a    *)
(* node changes, so the two always agree), a child message by value.       *)
(***************************************************************************)
Has(data, key) == KeyIn(key, data) = "true"

\* WrittenMessage.task_level.level
TaskLevelOf(data) == Get(data, "task_level").l

\* TaskLevel.parent()
ParentLevel(level) == SubSeq(level, 1, Len(level) - 1)

Last(level) == level[Len(level)]

\* A mapping with key k bound to v.
Put(f, k, v) == (k :> v) @@ f

\* Task()
EmptyTask == [nodes |-> <<>>, completed |-> {}]

\* WrittenAction(task_level=level, task_uuid=...)
NewAction(level) ==
    [kind |-> "action", level |-> level, start |-> JNull, end |-> JNull,
     kids |-> <<>>, msg |-> JNull]

\* A WrittenMessage stored as the task's root node.
RootMessage(data) ==
    [kind |-> "message", level |-> <<>>, start |-> JNull, end |-> JNull,
     kids |-> <<>>, msg |-> data]

ActionRef == [kind |-> "action", msg |-> JNull]

MessageKid(data) == [kind |-> "message", msg |-> data]

\* The test of Task._insert_action: start and end present, as many children
\* as the end message's level says, every child action completed.
ActionDone(task, node) ==
    /\ node.end.t = "dict"
    /\ node.start.t = "dict"
    /\ Cardinality(DOMAIN node.kids) = Last(TaskLevelOf(node.end)) - 2
    /\ \A l \in DOMAIN node.kids : node.kids[l].kind = "action" => l \in task.completed

\* The child kid as parent keeps it at `level`; seq is its rank among the
\* parent's children in order of arrival (a level that is filled again keeps
\* its rank).
Arrived(parent, level, kid) ==
    [kind |-> kid.kind, msg |-> kid.msg,
     seq |-> IF level \in DOMAIN parent.kids THEN parent.kids[level].seq
             ELSE Cardinality(DOMAIN parent.kids) + 1]

RECURSIVE InsertAction(_, _)

\* Task._ensure_node_parents(child), child at `level`
EnsureNodeParents(task, level, kid) ==
    IF level = <<>> THEN task
    ELSE LET pl == ParentLevel(level)
             parent == IF pl \in DOMAIN task.nodes THEN task.nodes[pl] ELSE NewAction(pl)
         IN InsertAction(task, [parent EXCEPT !.kids =
                                    Put(@, level, Arrived(parent, level, kid))])

\* Task._insert_action(node)
InsertAction(task, node) ==
    LET t1 == [nodes |-> Put(task.nodes, node.level, node),
               completed |-> IF ActionDone(task, node)
                             THEN task.completed \cup {node.level}
                             ELSE task.completed]
    IN EnsureNodeParents(t1, node.level, ActionRef)

\* WrittenAction.action_type: the start message's, else the end message's
ActionTypeOf(node) ==
    IF node.start.t = "dict" THEN Get(node.start, "action_type")
    ELSE IF node.end.t = "dict" THEN Get(node.end, "action_type")
    ELSE JNull

\* Task.add(message_dict) for a dict that has task_uuid: the new task, or
\* the exception raised (the task is then unchanged).
TaskAdd(task, data) ==
    LET isAction == Has(data, "action_type") /\ Get(data, "action_type").t # "null"
        level == TaskLevelOf(data)
        al == ParentLevel(level)
        action == IF al \in DOMAIN task.nodes THEN task.nodes[al] ELSE NewAction(al)
    IN
    CASE ~Has(data, "task_level") -> [exc |-> "KeyError", task |-> task]
      [] isAction /\ ~Has(data, "action_status") -> [exc |-> "KeyError", task |-> task]
      [] isAction /\ Get(data, "action_status") = JStr("started") ->
            IF Last(level) # 1
            THEN [exc |-> "InvalidStartMessage", task |-> task]
            ELSE [exc |-> "", task |-> InsertAction(task, [action EXCEPT !.start = data])]
      [] isAction ->
            IF ActionTypeOf(action).t # "null"
               /\ Get(data, "action_type") # ActionTypeOf(action)
            THEN [exc |-> "WrongActionType", task |-> task]
            ELSE IF Get(data, "action_status") \notin {JStr("failed"), JStr("succeeded")}
            THEN [exc |-> "InvalidStatus", task |-> task]
            ELSE [exc |-> "", task |-> InsertAction(task, [action EXCEPT !.end = data])]
      [] level = <<1>> ->
            [exc |-> "",
             task |-> [nodes |-> Put(task.nodes, <<>>, RootMessage(data)),
                       completed |-> task.completed \cup {<<>>}]]
      [] OTHER -> [exc |-> "", task |-> EnsureNodeParents(task, level, MessageKid(data))]

\* Parser.add(message_dict): (completed tasks, next parser), or the
\* exception raised.  tasks is Parser._tasks, keyed by task UUID.
ParserAdd(tasks, data) ==
    IF data.t # "dict" THEN [exc |-> "TypeError", done |-> <<>>, tasks |-> tasks]
    ELSE IF ~Has(data, "task_uuid") THEN [exc |-> "KeyError", done |-> <<>>, tasks |-> tasks]
    ELSE LET uuid == Get(data, "task_uuid").s
             task == IF uuid \in DOMAIN tasks THEN tasks[uuid] ELSE EmptyTask
             r == TaskAdd(task, data)
         IN IF r.exc # "" THEN [exc |-> r.exc, done |-> <<>>, tasks |-> tasks]
            ELSE IF <<>> \in r.task.completed
            THEN [exc |-> "", done |-> <<[uuid |-> uuid, task |-> r.task]>>,
                  tasks |-> [u \in DOMAIN tasks \ {uuid} |-> tasks[u]]]
            ELSE [exc |-> "", done |-> <<>>, tasks |-> Put(tasks, uuid, r.task)]

(***************************************************************************)
(* eliot_view.py: EliotTree.  The nodes _add_node_to_tree walks are        *)
(*   k = "task"    : a Task (uuid, task)                                   *)
(*   k = "action"  : the WrittenAction at `level` of `task`                *)
(*   k = "message" : a WrittenMessage (msg)                                *)
(*   k = "field"   : a tuple (key, value); intkey says the key is an int   *)
(* origin, pos and seq say where a child came from: the record it is a     *)
(* field of ("start", "end", "contents") and its place in that record, or   *)
(* its rank of arrival among the nested children ("nested").               *)
(***************************************************************************)
SrcTask(uuid, task) ==
    [k |-> "task", uuid |-> uuid, task |-> task, level |-> <<>>, msg |-> JNull,
     key |-> "", intkey |-> FALSE, value |-> JNull,
     origin |-> "", pos |-> 0, seq |-> 0]

SrcAction(task, level) ==
    [k |-> "action", uuid |-> "", task |-> task, level |-> level, msg |-> JNull,
     key |-> "", intkey |-> FALSE, value |-> JNull,
     origin |-> "", pos |-> 0, seq |-> 0]

SrcMessage(data) ==
    [k |-> "message", uuid |-> "", task |-> EmptyTask, level |-> <<>>, msg |-> data,
     key |-> "", intkey |-> FALSE, value |-> JNull,
     origin |-> "", pos |-> 0, seq |-> 0]

SrcField(key, intkey, value) ==
    [k |-> "field", uuid |-> "", task |-> EmptyTask, level |-> <<>>, msg |-> JNull,
     key |-> key, intkey |-> intkey, value |-> value,
     origin |-> "", pos |-> 0, seq |-> 0]

\* pyrsistent.freeze, which WrittenMessage.from_dict applies to the logged
\* dictionary: a dict becomes a pmap and a list a pvector, neither of which
\* is an instance of dict or list.
Freeze(v) ==
    CASE v.t = "dict" -> [v EXCEPT !.t = "pmap"]
      [] v.t = "list" -> [v EXCEPT !.t = "pvector"]
      [] OTHER -> v

VARIABLES
    hashOrder    \* the order in which a PMap yields its entries: it follows the
                 \* keys' hashes, which are fixed when the process starts

\* The orders modelled: the entries as the record lists them, or reversed.
HashOrders == {"record", "reversed"}

\* WrittenMessage.contents.items(): the logged entries without timestamp,
\* task_uuid and task_level, in the order the PMap yields them.
ContentsItems(data) ==
    LET kept == SelectSeq(data.d,
                    LAMBDA e : e.k \notin {"timestamp", "task_uuid", "task_level"})
        at(i) == IF hashOrder = "record" THEN kept[i] ELSE kept[Len(kept) + 1 - i]
    IN [i \in 1..Len(kept) |-> KV(at(i).k, Freeze(at(i).v))]

\* The keys _get_children leaves out of a WrittenAction's fields
ActionExcluded == {"task_uuid", "task_level", "action_type", "action_status", "timestamp"}

\* The keys _get_children leaves out of a WrittenMessage's fields
MessageExcluded == {"task_uuid", "task_level", "message_type", "timestamp"}

\* The keys _format_node_label treats as reserved
ReservedKeys ==
    {"task_uuid", "task_level", "action_type", "action_status", "message_type", "timestamp"}

\* The field tuples of a message's contents whose key is not excluded.
FieldsOf(data, excluded) ==
    LET items == SelectSeq(ContentsItems(data), LAMBDA e : e.k \notin excluded)
        place(key) == CHOOSE j \in 1..Len(data.d) : data.d[j].k = key
    IN [i \in 1..Len(items) |->
           [SrcField(items[i].k, FALSE, items[i].v) EXCEPT !.pos = place(items[i].k)]]

\* The children srcs, marked as coming from `origin`.
From(origin, srcs) == [i \in 1..Len(srcs) |-> [srcs[i] EXCEPT !.origin = origin]]

\* key.endswith("_details")
EndsWithDetails(key) == key \in {"x_details", "y_details", "z_details"}

\* WrittenAction.children: the children sorted by task level
SortedKids(task, node) ==
    LET levels == DOMAIN node.kids
        nth(i) == CHOOSE l \in levels :
                      Cardinality({m \in levels : Last(m) < Last(l)}) = i - 1
        src(l) == IF node.kids[l].kind = "action" THEN SrcAction(task, l)
                  ELSE SrcMessage(node.kids[l].msg)
    IN [i \in 1..Cardinality(levels) |->
           [src(nth(i)) EXCEPT !.origin = "nested", !.seq = node.kids[nth(i)].seq]]

\* EliotTree._get_children
GetChildren(src) ==
    CASE src.k = "task" ->
            LET root == src.task.nodes[<<>>] IN
            IF root.kind = "message" THEN <<SrcMessage(root.msg)>>
            ELSE <<SrcAction(src.task, <<>>)>>
      [] src.k = "action" ->
            LET node == src.task.nodes[src.level] IN
            From("start", FieldsOf(node.start, ActionExcluded))
            \o SortedKids(src.task, node)
            \o (IF node.end.t = "dict"
                THEN From("end", FieldsOf(node.end, ActionExcluded)) ELSE <<>>)
      [] src.k = "message" -> From("contents", FieldsOf(src.msg, MessageExcluded))
      [] src.value.t = "dict" ->
            [i \in 1..Len(src.value.d) |->
                SrcField(src.value.d[i].k, FALSE, src.value.d[i].v)]
      [] src.value.t = "list" ->
            [i \in 1..Len(src.value.l) |-> SrcField(ToString(i - 1), TRUE, JNum)]
      [] src.value.t = "str" /\ ~src.intkey /\ EndsWithDetails(src.key)
         /\ src.value.emb # <<>> /\ src.value.emb[1].t = "dict" ->
            LET data == src.value.emb[1] IN
            [i \in 1..Len(data.d) |-> SrcField(data.d[i].k, FALSE, data.d[i].v)]
      [] OTHER -> <<>>

\* The first operand of the `and` that sets node.allow_expand
StructurallyExpandable(src) ==
    \/ src.k \in {"task", "action", "message"}
    \/ /\ src.k = "field"
       /\ \/ src.value.t \in {"dict", "list"}
          \/ src.value.t = "str" /\ ~src.intkey /\ EndsWithDetails(src.key)

\* message.timestamp as _format_node_label reads it: the exception raised, or ""
TimestampError(data) ==
    IF ~Has(data, "timestamp") THEN "KeyError"
    ELSE IF Get(data, "timestamp").t \notin {"num", "bool"} THEN "TypeError"
    ELSE ""

\* EliotTree._format_node_label: the exception it raises, or ""
LabelError(src) ==
    CASE src.k = "action" ->
            LET node == src.task.nodes[src.level] IN
            IF TimestampError(node.start) # "" THEN TimestampError(node.start)
            ELSE IF node.end.t = "dict" THEN TimestampError(node.end)
            ELSE ""
      [] src.k = "message" -> TimestampError(src.msg)
      [] OTHER -> ""

\* The status _format_node_label shows for an action
StatusOf(node) ==
    IF node.end.t = "dict" /\ Has(node.end, "action_status")
    THEN Get(node.end, "action_status").s ELSE "started"

\* A test that takes every action with an end record for a failed one.
IsEndedAction(src) ==
    src.k = "action" /\ src.task.nodes[src.level].end.t = "dict"

\* eliot_node.end_message.contents.get("action_status") == "failed"
IsFailedAction(src) ==
    /\ src.k = "action"
    /\ LET node == src.task.nodes[src.level] IN
       /\ node.end.t = "dict"
       /\ Has(node.end, "action_status")
       /\ Get(node.end, "action_status") = JStr("failed")

\* The TreeNode that (parent or self.root).add(label) creates for src, with
\* allow_expand as _add_node_to_tree sets it.  parent 0 is the tree's root.
DisplayNode(src, parent, children) ==
    [parent |-> parent,
     kind |-> src.k,
     name |-> IF src.k = "task" THEN src.uuid ELSE src.key,
     level |-> IF src.k = "action" THEN src.level
               ELSE IF src.k = "message" THEN TaskLevelOf(src.msg) ELSE <<>>,
     status |-> IF src.k = "action" THEN StatusOf(src.task.nodes[src.level]) ELSE "",
     vt |-> IF src.k = "field" THEN src.value.t ELSE "",
     parseable |-> src.k = "field" /\ src.value.t = "str" /\ src.value.emb # <<>>,
     allow_expand |-> StructurallyExpandable(src) /\ children # <<>>,
     expanded |-> FALSE,
     origin |-> src.origin, pos |-> src.pos, seq |-> src.seq]

RECURSIVE PathToRoot(_, _)

\* node and its ancestors, up to but not including the tree's root
PathToRoot(nodes, id) ==
    IF id = 0 THEN {} ELSE {id} \cup PathToRoot(nodes, nodes[id].parent)

\* A failure path that expands the failed node alone.
ExpandFailedNodeOnly(st, id) ==
    [st EXCEPT !.nodes = [@ EXCEPT ![id].expanded = TRUE]]

\* node.expand() followed by EliotTree._expand_failure_path(node)
ExpandFailurePath(st, id) ==
    [st EXCEPT !.nodes = [i \in 1..Len(@) |->
                             IF i \in PathToRoot(@, id)
                             THEN [@[i] EXCEPT !.expanded = TRUE] ELSE @[i]],
               !.rootExpanded = TRUE]

RECURSIVE AddNodeToTree(_, _, _)

RECURSIVE AddChildren(_, _, _, _)

\* "for child in children: self._add_node_to_tree(child, node)", from the
\* i-th child on; an exception ends the loop.
AddChildren(children, i, parent, st) ==
    IF i > Len(children) \/ st.exc # "" THEN st
    ELSE AddChildren(children, i + 1, parent, AddNodeToTree(children[i], parent, st))

\* EliotTree._add_node_to_tree(eliot_node, parent) on the tree st =
\* [nodes, rootExpanded, exc]; exc is the exception that ended the walk.
AddNodeToTree(src, parent, st) ==
    IF LabelError(src) # "" THEN [st EXCEPT !.exc = LabelError(src)]
    ELSE LET id == Len(st.nodes) + 1
             children == GetChildren(src)
             st1 == [st EXCEPT !.nodes = Append(@, DisplayNode(src, parent, children))]
             st2 == IF IsFailedAction(src) THEN ExpandFailurePath(st1, id) ELSE st1
         IN AddChildren(children, 1, id, st2)

VARIABLES
    tasks,         \* EliotTree._parser: Parser._tasks, by task UUID
    taskNodes,     \* EliotTree._task_nodes: task UUID -> display node
    nodes,         \* the tree's display nodes below its root, in creation order
    rootExpanded,  \* whether the tree's root is expanded
    crashed        \* an exception has escaped add_log_entry (and on_mount)

treeVars == <<tasks, taskNodes, nodes, rootExpanded, crashed, hashOrder>>

VARIABLES
    file_paths,    \* LogView.file_paths (handed on to EliotView.file_paths): the
                   \* files, each the sequence of its lines; <<>> before __init__
    composed,      \* what LogView.compose yielded: "" (not run), "tree", "flat",
                   \* or "raised" when an exception left it
    reading        \* EliotView.on_mount's loops: the path being read and the
                   \* number of its lines handed to add_log_entry

mountVars == <<file_paths, composed, reading>>

VARIABLES
    compared       \* the last comparisons of CompareTokens keys made while
                   \* sorting: three paths and the outcomes of <

sortVars == <<compared>>

vars == <<parserVars, viewVars, treeVars, mountVars, sortVars>>

\* EliotTree.__init__
InitTree ==
    /\ tasks = <<>>
    /\ taskNodes = <<>>
    /\ nodes = <<>>
    /\ rootExpanded = FALSE
    /\ crashed = FALSE
    /\ hashOrder \in HashOrders

\* add_log_entry catches json.JSONDecodeError and KeyError (and prints them)
\* and lets every other exception out.
Escapes(exc) == exc \notin {"", "JSONDecodeError", "KeyError"}

\* A test that never finds the UUID in the cache.
NotCachedIgnored(cache, uuid) == TRUE

\* task.root().task_uuid not in self._task_nodes
NotCached(cache, uuid) == uuid \notin DOMAIN cache

\* What add_log_entry(line) does to an EliotTree whose parser, cache and
\* display nodes are those of t: the exception that ended it ("" for none)
\* and the parser, cache and display nodes it leaves.
AddResultOn(t, line) ==
    LET r == JsonLoads(line)
        pa == ParserAdd(t.tasks, r.value)
        same == [exc |-> "", tasks |-> t.tasks, taskNodes |-> t.taskNodes,
                 nodes |-> t.nodes, rootExpanded |-> t.rootExpanded]
    IN
    IF r.exc # "" THEN [same EXCEPT !.exc = r.exc]
    ELSE IF pa.exc # "" THEN [same EXCEPT !.exc = pa.exc]
    ELSE IF pa.done # <<>> /\ NotCached(t.taskNodes, pa.done[1].uuid)
    THEN LET uuid == pa.done[1].uuid
             st == AddNodeToTree(SrcTask(uuid, pa.done[1].task), 0,
                       [nodes |-> t.nodes, rootExpanded |-> t.rootExpanded, exc |-> ""])
         IN [exc |-> st.exc,
             tasks |-> pa.tasks,
             taskNodes |-> IF st.exc = "" THEN Put(t.taskNodes, uuid, Len(t.nodes) + 1)
                           ELSE t.taskNodes,
             nodes |-> st.nodes,
             rootExpanded |-> st.rootExpanded]
    ELSE [same EXCEPT !.tasks = pa.tasks]

\* add_log_entry(line) on the EliotTree of the state.
AddResult(line) ==
    AddResultOn([exc |-> "", tasks |-> tasks, taskNodes |-> taskNodes,
                 nodes |-> nodes, rootExpanded |-> rootExpanded], line)

\* EliotTree.add_log_entry(line)
AddLogEntry(line) ==
    LET res == AddResult(line) IN
    /\ ~crashed
    /\ tasks' = res.tasks
    /\ taskNodes' = res.taskNodes
    /\ nodes' = res.nodes
    /\ rootExpanded' = res.rootExpanded
    /\ crashed' = Escapes(res.exc)
    /\ UNCHANGED hashOrder

(***************************************************************************)
(* The lines EliotView.on_mount hands to add_log_entry.                    *)
(***************************************************************************)
\* Root-task display nodes the tree may hold before ingestion stops.
MaxRootNodes == 2

\* {"task_uuid": uuid, "task_level": level, ...more}
Record(uuid, level, more) ==
    JObj(<<KV("task_uuid", JStr(uuid)), KV("task_level", JList(level))>> \o more)

ActionRecord(uuid, level, status, more) ==
    Record(uuid, level,
           <<KV("action_type", JStr("a")), KV("action_status", JStr(status))>> \o more)

MessageRecord(uuid, level, more) ==
    Record(uuid, level, <<KV("message_type", JStr("m"))>> \o more)

Stamp == <<KV("timestamp", JNum)>>

\* The text '{"k": [7], "n": {"e": 1}}'
EmbeddedObject ==
    JStrJson("{\"k\": [7], \"n\": {\"e\": 1}}",
             JObj(<<KV("k", JList(<<7>>)), KV("n", JObj(<<KV("e", JNum)>>))>>))

\* Lines that are no record: they do not decode, decode to a value that is
\* not an object, or lack a key the parser requires.
MalformedValues ==
    { JNull, JNum, JStr("abc"), JList(<<1>>),
      JObj(<<>>),
      JObj(<<KV("task_uuid", JStr("u1"))>>),
      Record("u1", <<1>>, <<KV("action_type", JStr("a")), KV("timestamp", JNum)>>) }

MalformedLines ==
    {Line(20, Json(v)) : v \in MalformedValues} \cup {Line(0, Blank), Line(20, PlainText)}

TreeRecords ==
    { \* task u1: a root action that fails with one child: a message, an
      \* action, or an action that has a child action of its own
      ActionRecord("u1", <<1>>, "started",
                   Stamp \o <<KV("foo", JStr("bar")), KV("baz", JStr("qux")),
                              KV("message_type", JStr("m"))>>),
      ActionRecord("u1", <<3>>, "failed", Stamp \o <<KV("reason", JStr("boom"))>>),
      MessageRecord("u1", <<2>>, Stamp \o <<KV("x_details", EmbeddedObject)>>),
      ActionRecord("u1", <<2, 1>>, "started", Stamp),
      ActionRecord("u1", <<2, 3>>, "succeeded", Stamp),
      ActionRecord("u1", <<2, 2, 1>>, "started", Stamp),
      ActionRecord("u1", <<2, 2, 2>>, "failed", Stamp),
      \* ... or succeeds with two children, which may arrive in either order
      MessageRecord("u1", <<3>>, Stamp),
      ActionRecord("u1", <<4>>, "succeeded", Stamp),
      \* task u2: a single message
      MessageRecord("u2", <<1>>,
                    Stamp \o <<KV("action_status", JStr("x")), KV("obj", JObj(<<KV("e", JNum)>>)),
                               KV("arr", JList(<<7>>)), KV("x_details", EmbeddedObject),
                               KV("y_details", JStr("plain")),
                               KV("z_details", JStrJson("[1]", JList(<<1>>)))>>),
      MessageRecord("u2", <<1>>, <<>>),
      \* records the parser refuses
      ActionRecord("u1", <<2>>, "started", Stamp),
      ActionRecord("u1", <<2>>, "running", Stamp) }

TreeLines == {Line(20, Json(v)) : v \in TreeRecords} \cup MalformedLines

\* The root-task display nodes: the children of the tree's root.
RootNodes == {i \in 1..Len(nodes) : nodes[i].parent = 0}

NextTree ==
    \E line \in TreeLines : Cardinality(RootNodes) < MaxRootNodes /\ AddLogEntry(line)

(***************************************************************************)
(* log_view.py: LogView.__init__ and LogView.compose; eliot_view.py:        *)
(* EliotView.on_mount.  LogScreen.compose builds one LogView per path and,  *)
(* for more than one path, one LogView over all of them.                    *)
(***************************************************************************)
\* Paths one LogView may be given.
MaxPaths == 2

InitMount ==
    /\ file_paths = <<>>
    /\ composed = ""
    /\ reading = [path |-> 1, line |-> 0]

\* LogView(file_paths, watcher)
LogViewInit(paths) ==
    /\ file_paths = <<>>
    /\ file_paths' = paths
    /\ UNCHANGED <<composed, reading, treeVars>>

\* "first_line and self._is_eliot_log(first_line)" for one file: "true",
\* "false", or the exception _is_eliot_log lets out.
FirstLineIsEliot(file) ==
    IF file = <<>> \/ IsBlank(file[1]) THEN "false" ELSE IsEliotLog(file[1])

\* The loop of LogView.compose over paths: it stops at the first file whose
\* first line is taken for an Eliot record.
ComposeDecision(paths) ==
    LET hits == {i \in 1..Len(paths) : FirstLineIsEliot(paths[i]) # "false"} IN
    IF hits = {} THEN "flat"
    ELSE LET first == CHOOSE i \in hits : \A j \in hits : i <= j IN
         IF FirstLineIsEliot(paths[first]) = "true" THEN "tree" ELSE "raised"

\* LogView.compose: an EliotView over all of file_paths, or the flat widgets
Compose ==
    /\ file_paths # <<>>
    /\ composed = ""
    /\ composed' = ComposeDecision(file_paths)
    /\ UNCHANGED <<file_paths, reading, treeVars>>

\* EliotView.on_mount, inner loop: the next line of the file being read
\* goes to add_log_entry.
OnMountLine ==
    /\ composed = "tree"
    /\ reading.line < Len(file_paths[reading.path])
    /\ AddLogEntry(file_paths[reading.path][reading.line + 1])
    /\ reading' = [reading EXCEPT !.line = @ + 1]
    /\ UNCHANGED <<file_paths, composed>>

\* EliotView.on_mount, outer loop: the file is exhausted, the next path is
\* opened.
OnMountNextPath ==
    /\ composed = "tree"
    /\ ~crashed
    /\ reading.line = Len(file_paths[reading.path])
    /\ reading.path < Len(file_paths)
    /\ reading' = [path |-> reading.path + 1, line |-> 0]
    /\ UNCHANGED <<file_paths, composed, treeVars>>

\* The lines of the files opened.
StartLine == Line(20, Json(ActionRecord("u1", <<1>>, "started", Stamp)))

EndLine == Line(20, Json(ActionRecord("u1", <<2>>, "succeeded", Stamp)))

MessageLine == Line(20, Json(MessageRecord("u2", <<1>>, Stamp)))

\* The files opened: a whole task; its start alone; its end alone; a task
\* that is one message; a plain line followed by that task; a blank line
\* followed by a whole task; an empty file.
LogFiles ==
    { <<StartLine, EndLine>>, <<StartLine>>, <<EndLine>>, <<MessageLine>>,
      <<Line(20, PlainText), MessageLine>>,
      <<Line(0, Blank), StartLine, EndLine>>, <<>> }

PathLists == UNION {[1..n -> LogFiles] : n \in 1..MaxPaths}

NextMount ==
    \/ \E paths \in PathLists : LogViewInit(paths)
    \/ Compose
    \/ OnMountLine
    \/ OnMountNextPath

(***************************************************************************)
(* ui.py: CompareTokens, the key UI.sort_paths sorts the paths by.  A text  *)
(* is the sequence of its characters' code points; a path is given by the  *)
(* parts path.split("/")[-1].split(".") returns.                           *)
(***************************************************************************)
\* Parts in a file name.
MaxTokens == 2

\* token.isdigit()
IsDigit(text) == text # <<>> /\ \A i \in 1..Len(text) : text[i] \in 48..57

RECURSIVE IntOf(_)

\* int(token) for a token of digits
IntOf(text) ==
    IF text = <<>> THEN 0
    ELSE 10 * IntOf(SubSeq(text, 1, Len(text) - 1)) + (text[Len(text)] - 48)

\* token.lower()
Lower(text) == [i \in 1..Len(text) |-> IF text[i] \in 65..90 THEN text[i] + 32 ELSE text[i]]

RECURSIVE Decimal(_)

\* str(n) for an int n >= 0
Decimal(n) == IF n < 10 THEN <<48 + n>> ELSE Decimal(n \div 10) \o <<48 + (n % 10)>>

\* int(token) if token.isdigit() else token.lower()
TokenOf(text) ==
    IF IsDigit(text) THEN [int |-> TRUE, n |-> IntOf(text), s |-> <<>>]
    ELSE [int |-> FALSE, n |-> 0, s |-> Lower(text)]

\* CompareTokens.__init__: self.tokens
Tokens(parts) == [i \in 1..Len(parts) |-> TokenOf(parts[i])]

\* str < str: the first differing character decides, else the shorter one
StrLess(x, y) ==
    \/ \E i \in 1..Len(x) :
          /\ i <= Len(y)
          /\ x[i] < y[i]
          /\ \A j \in 1..(i - 1) : x[j] = y[j]
    \/ /\ Len(x) < Len(y)
       /\ \A j \in 1..Len(x) : x[j] = y[j]

\* str(token)
StrOf(token) == IF token.int THEN Decimal(token.n) ELSE token.s

\* "token1 < token2", and "str(token1) < str(token2)" when that raises
\* TypeError (an int against a str)
TokenLess(t1, t2) ==
    IF t1.int /\ t2.int THEN t1.n < t2.n
    ELSE IF ~t1.int /\ ~t2.int THEN StrLess(t1.s, t2.s)
    ELSE StrLess(StrOf(t1), StrOf(t2))

\* CompareTokens.__lt__: True at the first pair of the zip whose first token
\* is less; when the loop ends, the answer is len(self) < len(other).
CompareTokensLt(x, y) ==
    \/ \E i \in 1..Len(x) : i <= Len(y) /\ TokenLess(x[i], y[i])
    \/ Len(x) < Len(y)

\* CompareTokens.__eq__
CompareTokensEq(x, y) == x = y

NoCompare ==
    [called |-> FALSE, a |-> <<>>, b |-> <<>>, c |-> <<>>,
     ab |-> FALSE, ba |-> FALSE, bc |-> FALSE, ac |-> FALSE, aa |-> FALSE]

InitSort == compared = NoCompare

\* UI.sort_paths(paths): sorted(paths, key=CompareTokens) compares the keys
\* of the paths a, b and c with <.
SortPaths(a, b, c) ==
    LET ka == Tokens(a)
        kb == Tokens(b)
        kc == Tokens(c)
    IN /\ ~compared.called
       /\ compared' = [called |-> TRUE, a |-> a, b |-> b, c |-> c,
                       ab |-> CompareTokensLt(ka, kb), ba |-> CompareTokensLt(kb, ka),
                       bc |-> CompareTokensLt(kb, kc), ac |-> CompareTokensLt(ka, kc),
                       aa |-> CompareTokensLt(ka, ka)]

\* The parts of the file names: "2", "10", "a", "A"
NameParts == {<<50>>, <<49, 48>>, <<97>>, <<65>>}

FileNames == UNION {[1..n -> NameParts] : n \in 1..MaxTokens}

NextSort == \E a, b, c \in FileNames : SortPaths(a, b, c)

(***************************************************************************)
(* Claims about EliotTree                                                  *)
(***************************************************************************)
\* The display children of node i (0 is the tree's root).
ChildrenOf(i) == {j \in 1..Len(nodes) : nodes[j].parent = i}

\* The root-task display nodes labelled with uuid.
TaskNodesOf(uuid) == {i \in RootNodes : nodes[i].name = uuid}

TaskUuids == {"u1", "u2"}

\* C3: whatever lines were added, the tree holds at most one root-task
\* display node per task UUID, and the cache maps that UUID to it.
C3_OneNodePerUuid ==
    \A uuid \in TaskUuids :
        /\ Cardinality(TaskNodesOf(uuid)) <= 1
        /\ \A i \in TaskNodesOf(uuid) :
              uuid \in DOMAIN taskNodes /\ taskNodes[uuid] = i

\* The action display nodes whose end record has action_status "failed".
FailedNodes == {i \in 1..Len(nodes) : nodes[i].kind = "action" /\ nodes[i].status = "failed"}

\* C4: every display node of a failed action is expanded, and so are all its
\* ancestors, the root-task node and the tree's root included.
C4_FailureVisible ==
    \A i \in FailedNodes :
        /\ rootExpanded
        /\ \A j \in PathToRoot(nodes, i) : nodes[j].expanded

\* A failed action three levels deep (below the root-task node, the root
\* action and a child action that succeeded) that has no children.
C4_Witness ==
    \E i \in FailedNodes :
        /\ Cardinality(PathToRoot(nodes, i)) = 4
        /\ ChildrenOf(i) = {}
        /\ nodes[nodes[i].parent].status = "succeeded"
        /\ nodes[nodes[i].parent].expanded

\* C5: no field child of an action or message display node has a reserved key.
C5_NoReservedFieldChild ==
    \A i \in 1..Len(nodes) :
        (/\ nodes[i].kind = "field"
         /\ nodes[i].parent # 0
         /\ nodes[nodes[i].parent].kind \in {"action", "message"})
        => nodes[i].name \notin ReservedKeys

\* C7: a line that does not decode, decodes to a value that is not an object,
\* or lacks a required key is dropped: add_log_entry does not raise and leaves
\* the parser, the cache and the tree as they were.
C7_MalformedDropped ==
    [][\A line \in MalformedLines :
          AddLogEntry(line) =>
              /\ ~crashed'
              /\ UNCHANGED <<tasks, taskNodes, nodes, rootExpanded>>]_vars

\* C8: a step never removes or re-parents a display node, and never removes
\* a cache entry or binds it to another node.
C8_MonotonicGrowth ==
    [][/\ Len(nodes') >= Len(nodes)
       /\ \A i \in 1..Len(nodes) :
             /\ nodes'[i].parent = nodes[i].parent
             /\ nodes'[i].kind = nodes[i].kind
             /\ nodes'[i].name = nodes[i].name
       /\ DOMAIN taskNodes \subseteq DOMAIN taskNodes'
       /\ \A u \in DOMAIN taskNodes : taskNodes'[u] = taskNodes[u]]_vars

\* Both tasks are materialized and cached: the tree and the cache grew after
\* they already held a task.
C8_Witness ==
    /\ DOMAIN taskNodes = TaskUuids
    /\ taskNodes["u1"] # taskNodes["u2"]
    /\ Len(nodes) > 2

\* C9: a display node is expandable iff its source is a task, an action, a
\* message or a field whose value is a mapping, a sequence or (under a
\* details key) a string that holds parseable structure, and it has at least
\* one display child.
C9_ExpandPolicy ==
    \A i \in 1..Len(nodes) :
        nodes[i].allow_expand <=>
            /\ \/ nodes[i].kind \in {"task", "action", "message"}
               \/ nodes[i].vt \in {"dict", "list", "pmap", "pvector"}
               \/ nodes[i].vt = "str" /\ nodes[i].parseable /\ EndsWithDetails(nodes[i].name)
            /\ ChildrenOf(i) # {}

\* Where the claimed order puts a child of an action: the start record's
\* fields, then the nested children, then the end record's fields.
Group(n) == CASE n.origin = "start" -> 1 [] n.origin = "nested" -> 2 [] OTHER -> 3

\* Child a may come before child b: an earlier group, or the same group and
\* earlier in the record (fields) or earlier to arrive (nested children).
InClaimedOrder(a, b) ==
    \/ Group(a) < Group(b)
    \/ /\ Group(a) = Group(b)
       /\ IF a.origin = "nested" THEN a.seq < b.seq ELSE a.pos < b.pos

\* C12: the display children of an action are created in this order: the
\* start record's fields in record order, the nested actions and messages in
\* order of arrival, the end record's fields in record order.
C12_ChildOrder ==
    \A n \in 1..Len(nodes) :
        nodes[n].kind = "action" =>
            \A i, j \in ChildrenOf(n) :
                i < j => InClaimedOrder(nodes[i], nodes[j])

\* C13: every root-task display node has exactly one child display node, the
\* node of the task's root action or message.
C13_RootTaskHasOneChild ==
    \A i \in RootNodes :
        /\ Cardinality(ChildrenOf(i)) = 1
        /\ \A j \in ChildrenOf(i) : nodes[j].kind \in {"action", "message"}

\* C14: a display node is expanded only if it is a failed action or an
\* ancestor of one, and the tree's root only if the tree holds a failed
\* action; every other node stays collapsed, as it was created.
C14_OnlyFailureExpands ==
    /\ \A i \in 1..Len(nodes) :
          nodes[i].expanded => \E f \in FailedNodes : i \in PathToRoot(nodes, f)
    /\ rootExpanded => FailedNodes # {}

\* The tree holds an expanded failed action whose child message is
\* expandable and collapsed, and another task whose root-task node is
\* expandable and collapsed.
C14_Witness ==
    /\ \E f \in FailedNodes :
          /\ nodes[f].expanded
          /\ \E j \in ChildrenOf(f) :
                nodes[j].kind = "message" /\ nodes[j].allow_expand /\ ~nodes[j].expanded
    /\ \E i \in RootNodes :
          nodes[i].allow_expand /\ ~nodes[i].expanded /\ ChildrenOf(i) # {}

(***************************************************************************)
(* Claims about LogView.compose and EliotView.on_mount                     *)
(***************************************************************************)
\* The number of lines of file f that on_mount has handed to add_log_entry.
LinesFed(f) ==
    IF composed # "tree" THEN 0
    ELSE IF f < reading.path THEN Len(file_paths[f])
    ELSE IF f = reading.path THEN reading.line ELSE 0

\* An EliotTree as EliotTree.__init__ leaves it.
FreshTree ==
    [exc |-> "", tasks |-> <<>>, taskNodes |-> <<>>, nodes |-> <<>>, rootExpanded |-> FALSE]

RECURSIVE Ingest(_, _, _)

\* The tree t after add_log_entry of the first n of lines.
Ingest(t, lines, n) ==
    IF n = 0 THEN t ELSE AddResultOn(Ingest(t, lines, n - 1), lines[n])

\* The display nodes ns, numbered from k + 1 on.
Shifted(ns, k) ==
    [i \in 1..Len(ns) |-> [ns[i] EXCEPT !.parent = IF @ = 0 THEN 0 ELSE @ + k]]

RECURSIVE SeparateTrees(_)

\* The display nodes of files 1..f when every file is ingested by a parser,
\* a cache and a tree of its own.
SeparateTrees(f) ==
    IF f = 0 THEN <<>>
    ELSE LET before == SeparateTrees(f - 1)
             own == Ingest(FreshTree, file_paths[f], LinesFed(f)).nodes
         IN before \o Shifted(own, Len(before))

\* C15: what a view over several files materializes for a file is what that
\* file's records alone give: the display nodes are those of the files
\* ingested apart, one file after the other.
C15_ScopedPerSource ==
    composed = "tree" => nodes = SeparateTrees(Len(file_paths))

\* The first line of the file decodes as an object that has the keys
\* task_uuid, task_level and action_type.
FirstLineIsRecord(file) ==
    /\ file # <<>>
    /\ LET r == JsonLoads(file[1]) IN
       /\ r.exc = ""
       /\ r.value.t = "dict"
       /\ \A k \in AllEliotKeys : \E i \in 1..Len(r.value.d) : r.value.d[i].k = k

\* C16: once a view is composed it is the tree view or the flat view, every
\* file of the view is in the tree view iff its own first line is a causal
\* record, and no line of a file whose first line is not one has gone to
\* add_log_entry.
C16_ViewPerSource ==
    composed # "" =>
        /\ composed \in {"tree", "flat"}
        /\ \A f \in 1..Len(file_paths) :
              /\ (composed = "tree") <=> FirstLineIsRecord(file_paths[f])
              /\ LinesFed(f) > 0 => FirstLineIsRecord(file_paths[f])

(***************************************************************************)
(* Claims about CompareTokens                                              *)
(***************************************************************************)
\* C18: < on CompareTokens keys is a strict order: a < b and b < a never
\* both hold, a < b is false when a and b have equal token lists, and a < b
\* with b < c implies a < c.
C18_StrictOrder ==
    compared.called =>
        /\ ~(compared.ab /\ compared.ba)
        /\ CompareTokensEq(Tokens(compared.a), Tokens(compared.b)) => ~compared.ab
        /\ (compared.ab /\ compared.bc) => compared.ac

(***************************************************************************)
(* Claims about the frame of FormatParser.parse                            *)
(***************************************************************************)
\* C17: a step changes a constructed parser's list only if it is a parse call
\* on that parser that succeeded at an index > 0 on a line that is not blank;
\* no step changes the module-level FORMATS.
C17_OnlyRotationMutates ==
    [][/\ FORMATS' = FORMATS
       /\ \A p \in ParserIds :
             (formats[p] # <<>> /\ formats'[p] # formats[p]) =>
                 /\ parsed'.parser = p
                 /\ parsed'.before = formats[p]
                 /\ parsed'.result.tag = "ok"
                 /\ parsed'.index > 0
                 /\ parsed'.by # "DefaultLogFormat"
                 /\ \A l \in parsed'.seen : ~IsBlank(l)]_vars

\* A parser whose list was rotated has then answered at index 0, through the
\* fallback matcher or on a blank line, while another parser still holds the
\* initial list.
C17_Witness ==
    /\ parsed.parser # 0
    /\ parsed.index <= 0
    /\ parsed.before # FormatsLiteral
    /\ formats[parsed.parser] = parsed.before
    /\ \E q \in ParserIds \ {parsed.parser} : formats[q] = FormatsLiteral

Init == InitParser /\ InitView /\ InitTree /\ InitMount /\ InitSort

SpecParser == Init /\ [][NextParser /\ UNCHANGED <<viewVars, treeVars, mountVars, sortVars>>]_vars

SpecView == Init /\ [][NextView /\ UNCHANGED <<parserVars, treeVars, mountVars, sortVars>>]_vars

SpecTree == Init /\ [][NextTree /\ UNCHANGED <<parserVars, viewVars, mountVars, sortVars>>]_vars

SpecMount == Init /\ [][NextMount /\ UNCHANGED <<parserVars, viewVars, sortVars>>]_vars

SpecSort ==
    Init /\ [][NextSort /\ UNCHANGED <<parserVars, viewVars, treeVars, mountVars>>]_vars

====
